---------------------------- MODULE Spec2Model ----------------------------
(***************************************************************************)
(* Finansly: the price-series store, the indicator and signal engine, the  *)
(* daily-digest gate and the transfer forecaster of price_tracker.py,      *)
(* trading_strategy.py and paypal_transfer_calculator.py.                  *)
(*                                                                         *)
(* Prices are integers (the smallest currency unit); every comparison the  *)
(* code makes on floats is made here on exact integers by cross            *)
(* multiplication.  The clock `now` counts hours of the reference          *)
(* timezone; a calendar date is now \div 24 and the hour is now % 24.      *)
(***************************************************************************)
EXTENDS Integers, Sequences, FiniteSets, TLC

VARIABLES
    now,                      \* wall clock, in hours
    price_history_file,       \* price_history.json
    daily_notification_file,  \* daily_notification.json
    outbox,                   \* messages the Telegram sender delivered
    appended,                 \* per asset, every point handed to add_price_entry
    obs,                      \* what the last operation did and returned
    pc,                       \* position of each thread
    loc                       \* local variables of each thread

vars == <<now, price_history_file, daily_notification_file, outbox,
          appended, obs, pc, loc>>

(***************************************************************************)
(* Configuration of price_tracker.py                                       *)
(***************************************************************************)
MAX_HISTORY_ENTRIES == 200
MIN_HISTORY_FOR_SIGNALS == 30
DAILY_NOTIFICATION_HOUR == 18

Assets == {"gold_24k", "usd", "gbp"}

\* Python's None for an optional number: None is <<>>, a value x is <<x>>
None == <<>>
Some(x) == <<x>>
\* Python truthiness of an optional number: None and 0 are false
Truthy(o) == o # None /\ o[1] # 0

\* the signal of get_trading_signal when it is None
NoSignal == "NONE"

(***************************************************************************)
(* Bounds of the model                                                     *)
(***************************************************************************)
MaxAppends == 205     \* appends of one run of the store specification
MaxTicks == 3         \* ticks of one run of the tick specification
MaxCalls == 2         \* check_and_notify calls of one run of the signal specification

(***************************************************************************)
(* Python helpers                                                          *)
(***************************************************************************)
\* s[-n:] for n > 0
LastN(s, n) == IF Len(s) <= n THEN s ELSE SubSeq(s, Len(s) - n + 1, Len(s))

RECURSIVE SumUpTo(_, _)
SumUpTo(s, n) == IF n = 0 THEN 0 ELSE s[n] + SumUpTo(s, n - 1)
SumSeq(s) == SumUpTo(s, Len(s))

Abs(x) == IF x < 0 THEN -x ELSE x

\* {} : a dict with no key
EmptyDict == [a \in {} |-> <<>>]

\* datetime.now().strftime("%Y-%m-%d %H:%M:%S") and the entry built from it
Entry(t, price) == [timestamp |-> t, price |-> price]

\* now_local.strftime("%Y-%m-%d") and now_local.hour
DateOf(t) == t \div 24
HourOf(t) == t % 24

(***************************************************************************)
(* The persisted files.  A file is absent, holds a complete JSON document  *)
(* ("valid"), or holds the incomplete text left by open(.., 'w') followed  *)
(* by an unfinished json.dump ("truncated").                               *)
(***************************************************************************)
AbsentFile == [kind |-> "absent", data |-> EmptyDict]
ValidFile(d) == [kind |-> "valid", data |-> d]
TruncatedFile == [kind |-> "truncated", data |-> EmptyDict]

\* what open(.., 'r') and json.load raise on a file: nothing when the file
\* is missing (os.path.exists is False, nothing is opened) or complete,
\* IOError when it cannot be read, JSONDecodeError when its text is
\* incomplete
LoadError(f, readable) ==
    IF f.kind = "absent" THEN "none"
    ELSE IF ~readable THEN "IOError"
    ELSE IF f.kind = "truncated" THEN "JSONDecodeError"
    ELSE "none"

\* line 29: except (json.JSONDecodeError, IOError)
CaughtByLoadHistory_ioOnly == {"IOError"}
CaughtByLoadHistory == {"JSONDecodeError", "IOError"}
\* line 49: except (json.JSONDecodeError, IOError)
CaughtByLoadDaily == {"JSONDecodeError", "IOError"}

\* load_price_history lets an exception escape
LoadHistoryRaises(f, readable) ==
    LoadError(f, readable) \notin CaughtByLoadHistory \cup {"none"}

\* load_price_history, when it returns: the parsed dict, or {} when the
\* file is missing or the exception was caught
load_price_history(f, readable) ==
    IF f.kind = "valid" /\ LoadError(f, readable) = "none" THEN f.data
    ELSE EmptyDict

\* open(PRICE_HISTORY_FILE, 'w'): the file is truncated before anything
\* is written to it
OpenForWrite(f) == TruncatedFile

\* save_price_history: open, dump, close.  outcome is what the file system
\* did: "ok", "open_failed" (IOError before truncation) or "write_failed"
\* (IOError after truncation); the IOError is swallowed.
save_price_history(f, history, outcome) ==
    CASE outcome = "ok" -> ValidFile(history)
      [] outcome = "open_failed" -> f
      [] OTHER -> OpenForWrite(f)

\* add_price_entry, lines 210-223: the dict it hands to save_price_history
AddEntry_keepOldest(history, asset_type, entry) ==
    LET h0 == IF asset_type \in DOMAIN history THEN history[asset_type] ELSE <<>>
        h1 == Append(h0, entry)
        h2 == IF Len(h1) > MAX_HISTORY_ENTRIES
              THEN SubSeq(h1, 1, MAX_HISTORY_ENTRIES) ELSE h1
    IN  [a \in (DOMAIN history) \cup {asset_type} |->
            IF a = asset_type THEN h2 ELSE history[a]]

AddEntry(history, asset_type, entry) ==
    LET h0 == IF asset_type \in DOMAIN history THEN history[asset_type] ELSE <<>>
        h1 == Append(h0, entry)
        h2 == IF Len(h1) > MAX_HISTORY_ENTRIES
              THEN LastN(h1, MAX_HISTORY_ENTRIES) ELSE h1
    IN  [a \in (DOMAIN history) \cup {asset_type} |->
            IF a = asset_type THEN h2 ELSE history[a]]

\* add_price_entry as one uninterrupted call: the file it leaves behind
add_price_entry(f, asset_type, price, t, readable, outcome) ==
    save_price_history(f,
        AddEntry(load_price_history(f, readable), asset_type, Entry(t, price)),
        outcome)

\* get_price_history_list
get_price_history_list(f, asset_type, readable) ==
    LET history == load_price_history(f, readable)
    IN  IF asset_type \in DOMAIN history /\ Len(history[asset_type]) > 0
        THEN [i \in 1..Len(history[asset_type]) |-> history[asset_type][i].price]
        ELSE <<>>

\* the stored series of an asset, as a reader of the file sees it
StoredSeries(f, asset_type) ==
    LET history == load_price_history(f, TRUE)
    IN  IF asset_type \in DOMAIN history THEN history[asset_type] ELSE <<>>

NoAppends == [a \in Assets |-> <<>>]
Idle == [op |-> "none"]
NoThreads == [t \in {} |-> "idle"]

(***************************************************************************)
(* trading_strategy.py.  An average is kept as the exact fraction          *)
(* [num, den]; an RSI value is kept in hundredths (0 .. 10000), which is   *)
(* what round(rsi, 2) leaves.                                              *)
(***************************************************************************)
Frac(n, d) == [num |-> n, den |-> d]
FracLT(a, b) == a.num * b.den < b.num * a.den

\* min(s) and max(s) of a non-empty list
MinSeq(s) == CHOOSE x \in {s[i] : i \in 1..Len(s)} :
                 \A y \in {s[i] : i \in 1..Len(s)} : x <= y
MaxSeq(s) == CHOOSE x \in {s[i] : i \in 1..Len(s)} :
                 \A y \in {s[i] : i \in 1..Len(s)} : x >= y

\* round(n / d) for n >= 0, d > 0, ties to even
RoundDiv(n, d) ==
    LET q == n \div d
        r == n % d
    IN  IF 2 * r < d THEN q
        ELSE IF 2 * r > d THEN q + 1
        ELSE IF q % 2 = 0 THEN q ELSE q + 1

calculate_sma(prices, period) ==
    IF Len(prices) < period THEN None
    ELSE Some(Frac(SumSeq(LastN(prices, period)), period))

\* the last `period` price changes; with len(prices) >= period + 1 the
\* loop index never is 0 and exactly `period` changes are collected
Changes(prices, period) ==
    [k \in 1..period |->
        prices[Len(prices) - period + k] - prices[Len(prices) - period + k - 1]]

\* rs itself, as a percentage, in place of 100 - 100 / (1 + rs)
RsiValue_ratio(sum_gain, sum_loss) == RoundDiv(100 * sum_gain, sum_loss)

\* lines 100-103, for avg_loss # 0: rs = avg_gain / avg_loss and
\* round(100 - 100 / (1 + rs), 2), which is 100 * gain / (gain + loss)
RsiValue(sum_gain, sum_loss) == RoundDiv(10000 * sum_gain, sum_gain + sum_loss)

\* the same with the avg_loss == 0 test ahead of the flat-market guard
RsiOf_lossFirst(ch, period, last_price) ==
    LET sum_gain == SumSeq([k \in 1..period |-> IF ch[k] > 0 THEN ch[k] ELSE 0])
        sum_loss == SumSeq([k \in 1..period |-> IF ch[k] > 0 THEN 0 ELSE Abs(ch[k])])
        max_abs_change == MaxSeq([k \in 1..period |-> Abs(ch[k])])
    IN  IF sum_loss = 0 THEN Some(10000)
        ELSE IF last_price # 0 /\ 2000 * max_abs_change < Abs(last_price)
        THEN Some(5000)
        ELSE Some(RsiValue(sum_gain, sum_loss))

\* lines 86-103, from the changes collected by the loop
RsiOf(ch, period, last_price) ==
    LET sum_gain == SumSeq([k \in 1..period |-> IF ch[k] > 0 THEN ch[k] ELSE 0])
        sum_loss == SumSeq([k \in 1..period |-> IF ch[k] > 0 THEN 0 ELSE Abs(ch[k])])
        max_abs_change == MaxSeq([k \in 1..period |-> Abs(ch[k])])
    IN  \* max_abs_change / abs(last_price) < 0.0005
        IF last_price # 0 /\ 2000 * max_abs_change < Abs(last_price)
        THEN Some(5000)
        ELSE IF sum_loss = 0 THEN Some(10000)
        ELSE Some(RsiValue(sum_gain, sum_loss))

calculate_rsi(prices, period) ==
    IF Len(prices) < period + 1 THEN None
    ELSE CHOOSE r \in {RsiOf(ch, period, prices[Len(prices)]) :
                          ch \in {Changes(prices, period)}} : TRUE

\* returns <<support, resistance>>
find_support_resistance(prices, lookback) ==
    IF Len(prices) < lookback THEN <<None, None>>
    ELSE <<Some(MinSeq(LastN(prices, lookback))),
           Some(MaxSeq(LastN(prices, lookback)))>>

\* lines 142-149
TrendOf(short_ma, long_ma) ==
    IF short_ma = None \/ long_ma = None THEN "none"
    ELSE IF FracLT(long_ma[1], short_ma[1]) THEN "bullish"
    ELSE IF FracLT(short_ma[1], long_ma[1]) THEN "bearish"
    ELSE "none"

analyze_trend(prices, short_period, long_period) ==
    CHOOSE r \in {TrendOf(short_ma, long_ma) :
                     short_ma \in {calculate_sma(prices, short_period)},
                     long_ma \in {calculate_sma(prices, long_period)}} : TRUE

MIN_CONFIRMATIONS == 2

\* get_trading_signal, lines 255-260: the decision from the two vote counts
Decide_majority(buy_signals, sell_signals) ==
    IF buy_signals >= MIN_CONFIRMATIONS /\ buy_signals >= sell_signals THEN "BUY"
    ELSE IF sell_signals >= MIN_CONFIRMATIONS THEN "SELL"
    ELSE NoSignal

Decide(buy_signals, sell_signals) ==
    IF buy_signals >= MIN_CONFIRMATIONS THEN "BUY"
    ELSE IF sell_signals >= MIN_CONFIRMATIONS THEN "SELL"
    ELSE NoSignal

\* Signal 1, lines 204-210: <<buy, sell, reasons>>
VoteMA(sma_10, sma_30) ==
    IF sma_10 # None /\ sma_10[1].num # 0 /\ sma_30 # None /\ sma_30[1].num # 0
    THEN IF FracLT(sma_30[1], sma_10[1]) THEN <<1, 0, <<"MA bullish">>>>
         ELSE IF FracLT(sma_10[1], sma_30[1]) THEN <<0, 1, <<"MA bearish">>>>
         ELSE <<0, 0, <<>>>>
    ELSE <<0, 0, <<>>>>

\* the RSI vote with the boundaries 30 and 70 in the strong tier
VoteRSI_inclusive(rsi) ==
    IF rsi = None THEN <<0, 0, <<>>>>
    ELSE IF rsi[1] <= 3000 THEN <<2, 0, <<"RSI oversold">>>>
    ELSE IF rsi[1] >= 7000 THEN <<0, 2, <<"RSI overbought">>>>
    ELSE IF rsi[1] < 4000 THEN <<1, 0, <<"RSI approaching oversold">>>>
    ELSE IF rsi[1] > 6000 THEN <<0, 1, <<"RSI approaching overbought">>>>
    ELSE <<0, 0, <<>>>>

\* Signal 2, lines 213-225
VoteRSI(rsi) ==
    IF rsi = None THEN <<0, 0, <<>>>>
    ELSE IF rsi[1] < 3000 THEN <<2, 0, <<"RSI oversold">>>>
    ELSE IF rsi[1] > 7000 THEN <<0, 2, <<"RSI overbought">>>>
    ELSE IF rsi[1] < 4000 THEN <<1, 0, <<"RSI approaching oversold">>>>
    ELSE IF rsi[1] > 6000 THEN <<0, 1, <<"RSI approaching overbought">>>>
    ELSE <<0, 0, <<>>>>

\* Signal 3, lines 228-238: price_position = (current_price - support) / price_range
VoteSR(support, resistance, current_price) ==
    IF Truthy(support) /\ Truthy(resistance)
    THEN LET price_range == resistance[1] - support[1]
         IN  IF price_range > 0
             THEN IF 5 * (current_price - support[1]) < price_range
                  THEN <<1, 0, <<"near support">>>>
                  ELSE IF 5 * (current_price - support[1]) > 4 * price_range
                  THEN <<0, 1, <<"near resistance">>>>
                  ELSE <<0, 0, <<>>>>
             ELSE <<0, 0, <<>>>>
    ELSE <<0, 0, <<>>>>

\* Signal 4, lines 241-246
VoteTrend(trend) ==
    IF trend = "bullish" THEN <<1, 0, <<"Trend bullish">>>>
    ELSE IF trend = "bearish" THEN <<0, 1, <<"Trend bearish">>>>
    ELSE <<0, 0, <<>>>>

\* the same with the reason of the trend put first
Tally_trendFirst(v1, v2, v3, v4) ==
    CHOOSE r \in
      {[signal |-> Decide(buy_signals, sell_signals), insufficient |-> FALSE,
        buy_signals |-> buy_signals, sell_signals |-> sell_signals,
        reasons |-> v4[3] \o v1[3] \o v2[3] \o v3[3]] :
         buy_signals \in {v1[1] + v2[1] + v3[1] + v4[1]},
         sell_signals \in {v1[2] + v2[2] + v3[2] + v4[2]}} : TRUE

\* lines 251-260: the analysis and the decision from the four votes
Tally(v1, v2, v3, v4) ==
    CHOOSE r \in
      {[signal |-> Decide(buy_signals, sell_signals), insufficient |-> FALSE,
        buy_signals |-> buy_signals, sell_signals |-> sell_signals,
        reasons |-> v1[3] \o v2[3] \o v3[3] \o v4[3]] :
         buy_signals \in {v1[1] + v2[1] + v3[1] + v4[1]},
         sell_signals \in {v1[2] + v2[2] + v3[2] + v4[2]}} : TRUE

\* the test with the 15 points calculate_rsi needs in place of min_history
InsufficientHistory_rsiOnly(prices, min_history) == Len(prices) < 15

\* line 174
InsufficientHistory(prices, min_history) == Len(prices) < min_history

get_trading_signal(prices, current_price, min_history) ==
    IF InsufficientHistory(prices, min_history)
    THEN [signal |-> NoSignal, insufficient |-> TRUE,
          buy_signals |-> 0, sell_signals |-> 0, reasons |-> <<>>]
    ELSE CHOOSE r \in
      {Tally(v1, v2, v3, v4) :
         v1 \in {VoteMA(calculate_sma(prices, 10), calculate_sma(prices, 30))},
         v2 \in {VoteRSI(calculate_rsi(prices, 14))},
         v3 \in {VoteSR(sr[1], sr[2], current_price) :
                    sr \in {find_support_resistance(prices, 20)}},
         v4 \in {VoteTrend(analyze_trend(prices, 10, 30))}} : TRUE

(***************************************************************************)
(* price_tracker.py: the signal candidate of one asset                     *)
(***************************************************************************)
\* the filter with the threshold 0.0005 in place of 0.005
VolatilityGate_tenth(price_history) ==
    \E sr \in {find_support_resistance(price_history, 20)} :
        /\ sr[1] # None /\ sr[2] # None
        /\ sr[2][1] > sr[1][1]
        /\ sr[1][1] + sr[2][1] > 0
        /\ 4000 * (sr[2][1] - sr[1][1]) < sr[1][1] + sr[2][1]

\* lines 143-151: the volatility filter says the market is too flat.
\* price_range / mid_price < 0.005 with mid_price = (support + resistance) / 2
VolatilityGate(price_history) ==
    \E sr \in {find_support_resistance(price_history, 20)} :
        /\ sr[1] # None /\ sr[2] # None
        /\ sr[2][1] > sr[1][1]
        /\ sr[1][1] + sr[2][1] > 0
        /\ 400 * (sr[2][1] - sr[1][1]) < sr[1][1] + sr[2][1]

\* what get_trading_signal returns for a series too short to analyse; also
\* stands for "not called"
NoAnalysis ==
    [signal |-> NoSignal, insufficient |-> TRUE,
     buy_signals |-> 0, sell_signals |-> 0, reasons |-> <<>>]

\* lines 136-163, given the series read back after the append: whether
\* get_trading_signal was reached, what it returned, and the signal of the
\* candidate (NoSignal when the function returns None)
Candidate(price_history, current_price) ==
    IF Len(price_history) < MIN_HISTORY_FOR_SIGNALS
    THEN [called |-> FALSE, analysis |-> NoAnalysis, signal |-> NoSignal]
    ELSE IF VolatilityGate(price_history)
    THEN [called |-> FALSE, analysis |-> NoAnalysis, signal |-> NoSignal]
    ELSE CHOOSE r \in
           {[called |-> TRUE, analysis |-> an, signal |-> an.signal] :
              an \in {get_trading_signal(price_history, current_price,
                                         MIN_HISTORY_FOR_SIGNALS)}} : TRUE

\* _get_signal_candidate: lines 130-163 as one uninterrupted call.  Returns
\* the file it leaves behind, the series it analysed and the candidate.
\* readable and outcome say what the file system does during the call: whether
\* price_history.json can be read, and how the save ends.
\* raised: an exception of load_price_history escaped, from add_price_entry
\* (nothing was saved) or from get_price_history_list (after the save).
NoCandidate == [called |-> FALSE, analysis |-> NoAnalysis, signal |-> NoSignal]

get_signal_candidate(f, asset_type, current_price, t, readable, outcome) ==
    IF current_price = None
    THEN [file |-> f, series |-> <<>>, cand |-> NoCandidate, raised |-> FALSE]
    ELSE IF LoadHistoryRaises(f, readable)
    THEN [file |-> f, series |-> <<>>, cand |-> NoCandidate, raised |-> TRUE]
    ELSE CHOOSE r \in
           {IF LoadHistoryRaises(f1, readable)
            THEN [file |-> f1, series |-> <<>>, cand |-> NoCandidate, raised |-> TRUE]
            ELSE CHOOSE r2 \in
              {[file |-> f1, series |-> price_history,
                cand |-> Candidate(price_history, current_price[1]),
                raised |-> FALSE] :
                 price_history \in {get_price_history_list(f1, asset_type, readable)}} : TRUE :
              f1 \in {add_price_entry(f, asset_type, current_price[1], t,
                                      readable, outcome)}} : TRUE

(***************************************************************************)
(* price_tracker.py: the daily digest                                      *)
(***************************************************************************)
LoadDailyRaises(f, readable) ==
    LoadError(f, readable) \notin CaughtByLoadDaily \cup {"none"}

load_daily_notification(f, readable) ==
    IF f.kind = "valid" /\ LoadError(f, readable) = "none" THEN f.data
    ELSE EmptyDict

save_daily_notification(f, tracking, outcome) ==
    CASE outcome = "ok" -> ValidFile(tracking)
      [] outcome = "open_failed" -> f
      [] OTHER -> OpenForWrite(f)

\* tracking.get("last_sent_date")
LastSentDate(tracking) ==
    IF "last_sent_date" \in DOMAIN tracking
    THEN Some(tracking["last_sent_date"]) ELSE None

should_send_daily_anyhour(f, t, readable) ==
    LastSentDate(load_daily_notification(f, readable)) # Some(DateOf(t))

should_send_daily_notification(f, t, readable) ==
    IF HourOf(t) < DAILY_NOTIFICATION_HOUR THEN FALSE
    ELSE LastSentDate(load_daily_notification(f, readable)) # Some(DateOf(t))

record_daily_always(f, t, sent, outcome) ==
    save_daily_notification(f, [k \in {"last_sent_date"} |-> DateOf(t)], outcome)

\* lines 434-435: record_daily_notification runs only if the send returned True
record_daily_if_sent(f, t, sent, outcome) ==
    IF sent
    THEN save_daily_notification(f, [k \in {"last_sent_date"} |-> DateOf(t)], outcome)
    ELSE f

\* the message of _format_daily_summary_message, by its content
DigestMessage(t, gold, usd, gbp, signals) ==
    [kind |-> "digest", at |-> t, date |-> DateOf(t),
     gold |-> gold, usd |-> usd, gbp |-> gbp, signals |-> signals]

(***************************************************************************)
(* paypal_transfer_calculator.py.  A rate is an integer number of          *)
(* hundredths of EGP (get_gbp_rate rounds to two decimals), an amount an   *)
(* integer number of GBP.  The estimated rate and the difference are kept  *)
(* as exact numerators over 300, the common denominator of 0.98, 0.95 and  *)
(* the average of six changes times 0.5.                                   *)
(***************************************************************************)
RateUnit == 100
MANUAL_TRANSFER_TAX == 150

\* the trend taken from seven points only when there are more than seven
TooShortForTrend_le(price_history) == Len(price_history) <= 7

\* line 33: if len(price_history) < 7
TooShortForTrend(price_history) == Len(price_history) < 7

\* the estimate returned as it is, without the floor
FlooredEstimate_none(estimated_rate, current_rate) == estimated_rate

\* line 47: max(estimated_rate, current_rate * 0.95), both times 300
FlooredEstimate(estimated_rate, current_rate) ==
    IF estimated_rate >= 285 * current_rate THEN estimated_rate
    ELSE 285 * current_rate

\* estimate_future_rate, times 300
estimate_future_rate(current_rate, price_history, days_ahead) ==
    IF TooShortForTrend(price_history) THEN 300 * current_rate
    ELSE LET prices == [i \in 1..7 |-> LastN(price_history, 7)[i].price]
             estimated_rate == 300 * current_rate
                               + 25 * SumSeq(Changes(prices, 6)) * days_ahead
         IN  FlooredEstimate(estimated_rate, current_rate)

NoForecast == [made |-> FALSE, raised |-> FALSE, recommendation |-> "NONE",
               estimated_future_rate |-> 0, difference |-> 0]

\* the same with the boundaries 50 and -50 on the transfer sides
Recommend_inclusive(difference) ==
    IF difference >= 50 * RateUnit * 300 THEN "MANUAL_TRANSFER"
    ELSE IF difference <= -50 * RateUnit * 300 THEN "WAIT_FOR_AUTO"
    ELSE "EITHER"

\* lines 92-100, on the difference times 300
Recommend(difference) ==
    IF difference > 50 * RateUnit * 300 THEN "MANUAL_TRANSFER"
    ELSE IF difference < -50 * RateUnit * 300 THEN "WAIT_FOR_AUTO"
    ELSE "EITHER"

\* the message check_paypal_transfer sends, by its content: the formatted
\* decision, or the error text when there is no decision
ForecastMessage(t, decision) ==
    [kind |-> IF decision.made THEN "forecast" ELSE "forecast_error", at |-> t,
     recommendation |-> decision.recommendation,
     difference |-> decision.difference]

\* check_paypal_transfer with send_to_telegram=True: the outbox it leaves
\* (nothing is sent when calculate_paypal_transfer raised)
check_paypal_transfer(box, t, decision, send_ok) ==
    IF decision.raised \/ ~send_ok THEN box
    ELSE Append(box, ForecastMessage(t, decision))

\* the conservative estimate used for every history too short for a trend
NoHistory_short(gbp_history) == Len(gbp_history) < 7

\* line 79: `if gbp_history:` fails
NoHistory(gbp_history) == gbp_history = <<>>

\* the test `current_rate is None` in place of `not current_rate`
RateUnavailable_noneOnly(current_rate) == current_rate = None

\* line 65: `if not current_rate`, for the None and the 0 of get_gbp_rate
RateUnavailable(current_rate) == ~Truthy(current_rate)

\* calculate_paypal_transfer: made is FALSE when it returns None, raised is
\* TRUE when an exception of load_price_history escapes it
calculate_paypal_transfer(f, gbp_amount, current_rate, days_until, readable) ==
    IF gbp_amount <= 0 THEN NoForecast
    ELSE IF RateUnavailable(current_rate) THEN NoForecast
    ELSE IF LoadHistoryRaises(f, readable) THEN [NoForecast EXCEPT !.raised = TRUE]
    ELSE LET history == load_price_history(f, readable)
             gbp_history == IF history # EmptyDict /\ "gbp" \in DOMAIN history
                            THEN history["gbp"] ELSE <<>>
             estimated == IF NoHistory(gbp_history)
                          THEN 294 * current_rate[1]
                          ELSE estimate_future_rate(current_rate[1], gbp_history,
                                                    days_until)
             difference == 300 * gbp_amount * current_rate[1]
                           - 300 * MANUAL_TRANSFER_TAX * RateUnit
                           - gbp_amount * estimated
         IN  [made |-> TRUE, raised |-> FALSE,
              recommendation |-> Recommend(difference),
              estimated_future_rate |-> estimated, difference |-> difference]

(***************************************************************************)
(* Specification SpecStore: appends to one asset, one after the other,     *)
(* starting from an empty store.  The feed is a ramp (one new price per    *)
(* hour), so every appended point is distinct.                             *)
(***************************************************************************)
StoreFeed(t) == 10000 + t

InitStore ==
    /\ now = 0
    /\ price_history_file = AbsentFile
    /\ daily_notification_file = AbsentFile
    /\ outbox = <<>>
    /\ appended = NoAppends
    /\ \E a \in Assets : obs = [op |-> "store", asset |-> a]
    /\ pc = NoThreads
    /\ loc = NoThreads

StoreAppend ==
    /\ obs.op = "store"
    /\ Len(appended[obs.asset]) < MaxAppends
    /\ \E price \in {StoreFeed(now)} :
         /\ price_history_file' =
              add_price_entry(price_history_file, obs.asset, price, now, TRUE, "ok")
         /\ appended' = [appended EXCEPT ![obs.asset] = Append(@, Entry(now, price))]
    /\ now' = now + 1
    /\ UNCHANGED <<daily_notification_file, outbox, obs, pc, loc>>

NextStore == StoreAppend

SpecStore == InitStore /\ [][NextStore]_vars

\* C1: after n appends to one asset from an empty store, the stored series
\* is exactly the most recent min(n, 200) appended points in insertion
\* order; its length never exceeds MAX_HISTORY_ENTRIES.
C1_FifoBound ==
    obs.op = "store" =>
      \A a \in Assets :
        /\ StoredSeries(price_history_file, a) = LastN(appended[a], MAX_HISTORY_ENTRIES)
        /\ Len(StoredSeries(price_history_file, a)) <= MAX_HISTORY_ENTRIES

\* 205 appends were made: the last 200 are kept, the first 5 are gone
C1_Witness ==
    /\ obs.op = "store"
    /\ Len(appended[obs.asset]) = 205
    /\ Len(StoredSeries(price_history_file, obs.asset)) = 200
    /\ StoredSeries(price_history_file, obs.asset)[1] = appended[obs.asset][6]
    /\ StoredSeries(price_history_file, obs.asset)[200] = appended[obs.asset][205]

(***************************************************************************)
(* Specification Spec: the background checker.  Ticks (check_all_prices)   *)
(* run one after the other from a cold start; each fetch returns a price   *)
(* or None, each send succeeds or fails.                                   *)
(***************************************************************************)
TickPrice == 10000
TickDelays == {1, 8}      \* hours to the next tick
PriceInputs == {None, Some(TickPrice)}

\* the state of a persisted file as a load finds it
FoundAs(f, readable) ==
    IF f.kind = "absent" THEN "absent"
    ELSE IF ~readable THEN "unreadable"
    ELSE IF f.kind = "truncated" THEN "corrupt"
    ELSE "ok"

TickObs0 ==
    [op |-> "tick", last |-> "none", n |-> 0, at |-> 0, attempted |-> FALSE,
     sent |-> FALSE, failed_at |-> None, prev_failed |-> None,
     raised |-> FALSE, fetched |-> <<None, None, None>>,
     signals |-> <<NoSignal, NoSignal, NoSignal>>,
     series |-> <<<<>>, <<>>, <<>>>>,
     history_was |-> "absent", daily_was |-> "absent",
     saves |-> <<"ok", "ok">>, amount |-> 0, forecast |-> NoForecast]

InitTick ==
    /\ now = 17
    /\ price_history_file = AbsentFile
    /\ daily_notification_file = AbsentFile
    /\ outbox = <<>>
    /\ appended = NoAppends
    /\ obs = TickObs0
    /\ pc = NoThreads
    /\ loc = NoThreads

\* what the file system does during one call: whether each file can be
\* read, and how each save ends
SaveOutcomes == {"ok", "open_failed", "write_failed"}
FileSystem == [r_history : BOOLEAN, r_daily : BOOLEAN,
               w_history : SaveOutcomes, w_daily : SaveOutcomes]
FaultFree == [r_history |-> TRUE, r_daily |-> TRUE,
              w_history |-> "ok", w_daily |-> "ok"]

\* the USD and GBP blocks nested under the gold block
Offered_afterGold(fetched, i) ==
    IF Truthy(fetched[1]) /\ Truthy(fetched[i]) THEN fetched[i] ELSE None

\* lines 404, 410 and 416: the price handed to the block of the i-th asset,
\* None when `if price:` skips the block
Offered(fetched, i) == IF Truthy(fetched[i]) THEN fetched[i] ELSE None

\* check_all_prices, lines 399-435, as one uninterrupted call under the
\* file system behaviour io.  An exception that escapes a load ends the call
\* (background_price_checker catches and prints it).
TickStep(gold, usd, gbp, send_ok, delay, io) ==
    /\ \E g \in {get_signal_candidate(price_history_file, "gold_24k",
                    Offered(<<gold, usd, gbp>>, 1), now,
                    io.r_history, io.w_history)} :
       \E u \in {get_signal_candidate(g.file, "usd",
                    IF ~g.raised THEN Offered(<<gold, usd, gbp>>, 2) ELSE None,
                    now, io.r_history, io.w_history)} :
       \E b \in {get_signal_candidate(u.file, "gbp",
                    IF ~g.raised /\ ~u.raised
                    THEN Offered(<<gold, usd, gbp>>, 3) ELSE None,
                    now, io.r_history, io.w_history)} :
       LET raised_history == g.raised \/ u.raised \/ b.raised
           raised_daily == /\ ~raised_history
                           /\ HourOf(now) >= DAILY_NOTIFICATION_HOUR
                           /\ LoadDailyRaises(daily_notification_file, io.r_daily)
           attempt == /\ ~raised_history /\ ~raised_daily
                      /\ should_send_daily_notification(daily_notification_file,
                                                        now, io.r_daily)
           sent == attempt /\ send_ok
           msg == DigestMessage(now, gold, usd, gbp,
                                <<g.cand.signal, u.cand.signal, b.cand.signal>>)
           handed == [a \in Assets |->
                        CASE a = "gold_24k" ->
                                 Offered(<<gold, usd, gbp>>, 1) # None
                          [] a = "usd" ->
                                 Offered(<<gold, usd, gbp>>, 2) # None /\ ~g.raised
                          [] OTHER ->
                                 /\ Offered(<<gold, usd, gbp>>, 3) # None
                                 /\ ~g.raised /\ ~u.raised]
           price == [a \in Assets |->
                        CASE a = "gold_24k" -> gold [] a = "usd" -> usd [] OTHER -> gbp]
       IN  /\ price_history_file' = b.file
           /\ appended' = [a \in Assets |->
                 IF handed[a] THEN Append(appended[a], Entry(now, price[a][1]))
                 ELSE appended[a]]
           /\ daily_notification_file' =
                 IF attempt
                 THEN record_daily_if_sent(daily_notification_file, now, sent,
                                           io.w_daily)
                 ELSE daily_notification_file
           /\ outbox' = IF sent THEN Append(outbox, msg) ELSE outbox
           /\ obs' = [op |-> "tick", last |-> "tick", n |-> obs.n + 1, at |-> now,
                      attempted |-> attempt, sent |-> sent,
                      failed_at |-> IF attempt /\ ~sent THEN Some(now)
                                    ELSE IF sent THEN None ELSE obs.failed_at,
                      prev_failed |-> obs.failed_at,
                      raised |-> raised_history \/ raised_daily,
                      fetched |-> <<gold, usd, gbp>>,
                      signals |-> <<g.cand.signal, u.cand.signal, b.cand.signal>>,
                      series |-> <<g.series, u.series, b.series>>,
                      history_was |-> FoundAs(price_history_file, io.r_history),
                      daily_was |-> FoundAs(daily_notification_file, io.r_daily),
                      saves |-> <<io.w_history, io.w_daily>>,
                      amount |-> 0, forecast |-> NoForecast]
    /\ now' = now + delay
    /\ UNCHANGED <<pc, loc>>

Tick(gold, usd, gbp, send_ok, delay) ==
    /\ obs.op = "tick"
    /\ obs.n < MaxTicks
    /\ TickStep(gold, usd, gbp, send_ok, delay, FaultFree)

NextTick ==
    \E gold \in PriceInputs, usd \in PriceInputs, gbp \in PriceInputs,
       send_ok \in BOOLEAN, delay \in TickDelays :
        Tick(gold, usd, gbp, send_ok, delay)

Spec == InitTick /\ [][NextTick]_vars

Digests == {i \in 1..Len(outbox) : outbox[i].kind = "digest"}

\* C2: over any sequence of non-overlapping ticks, at most one digest is
\* delivered per calendar date, and none at a tick whose hour is below
\* DAILY_NOTIFICATION_HOUR.
C2_OneDigestPerDate ==
    /\ \A i \in Digests : \A j \in Digests :
          outbox[i].date = outbox[j].date => i = j
    /\ \A i \in Digests : HourOf(outbox[i].at) >= DAILY_NOTIFICATION_HOUR

\* a digest was delivered, and a later tick of the same date, at or after
\* the cutoff hour, delivered nothing
C2_Witness ==
    /\ Len(outbox) = 1 /\ outbox[1].kind = "digest"
    /\ obs.op = "tick" /\ obs.at > outbox[1].at
    /\ DateOf(obs.at) = outbox[1].date
    /\ HourOf(obs.at) >= DAILY_NOTIFICATION_HOUR
    /\ ~obs.attempted

\* C3: the digest record is committed only on a delivered digest.  A tick
\* whose send fails leaves daily_notification.json unchanged, so that the
\* digest stays due for every later hour of that date; a tick whose send
\* succeeds leaves last_sent_date = today.
C3_CommitOnlyOnSuccess ==
    [][(obs'.op = "tick" /\ obs'.n # obs.n /\ obs'.attempted) =>
         IF obs'.sent
         THEN LastSentDate(load_daily_notification(daily_notification_file', TRUE))
                 = Some(DateOf(obs'.at))
         ELSE /\ daily_notification_file' = daily_notification_file
              /\ \A h \in HourOf(obs'.at)..23 :
                    should_send_daily_notification(daily_notification_file',
                                             24 * DateOf(obs'.at) + h, TRUE)]_vars

\* a send failed, and the next tick of that date tried again and delivered
C3_Witness ==
    /\ obs.op = "tick" /\ obs.attempted /\ obs.sent
    /\ obs.prev_failed # None
    /\ DateOf(obs.prev_failed[1]) = DateOf(obs.at)
    /\ outbox[Len(outbox)].at = obs.at
    /\ LastSentDate(load_daily_notification(daily_notification_file, TRUE))
          = Some(DateOf(obs.at))

(***************************************************************************)
(* Specification SpecSignal: check_and_notify on a store that already      *)
(* holds 30 points of one asset.  The stored series are four flat runs of  *)
(* 10, 10, 6 and 4 points, each at one of three price levels, and the ramp *)
(* of 30 equally spaced ascending points 9420, 9440, .., 10000 (Scenario A *)
(* of the specification, rescaled: the 31st point is 10020).               *)
(***************************************************************************)
Levels == {9600, 10000, 10020}
RunLengths == <<10, 10, 6, 4>>
RampTop == 10020
SignalPrices == Levels
CallDelays == {1, 6}      \* hours to the next call

Run(v, n) == [i \in 1..n |-> v]
Runs(c) == Run(c[1], RunLengths[1]) \o Run(c[2], RunLengths[2])
           \o Run(c[3], RunLengths[3]) \o Run(c[4], RunLengths[4])
Ramp == [i \in 1..30 |-> 9420 + 20 * (i - 1)]
Histories == {Runs(c) : c \in [1..4 -> Levels]} \cup {Ramp}

\* the entries of a stored series, one per hour up to the hour before t
EntriesOf(prices, t) ==
    [i \in 1..Len(prices) |-> Entry(t - Len(prices) + i - 1, prices[i])]

\* the message of _format_signal_short, by its content
SignalMessage(t, asset_type, signal, current_price) ==
    [kind |-> "signal", at |-> t, asset |-> asset_type,
     direction |-> signal, price |-> current_price]

InitSignal ==
    /\ now = 240
    /\ \E a \in Assets, h \in Histories :
         /\ price_history_file = ValidFile([x \in {a} |-> EntriesOf(h, now)])
         /\ appended = [x \in Assets |-> IF x = a THEN EntriesOf(h, now) ELSE <<>>]
         /\ obs = [op |-> "notify", n |-> 0, asset |-> a, at |-> 0, price |-> 0,
                   series |-> <<>>, called |-> FALSE, analysis |-> NoAnalysis,
                   signal |-> NoSignal, sent |-> FALSE]
    /\ daily_notification_file = AbsentFile
    /\ outbox = <<>>
    /\ pc = NoThreads
    /\ loc = NoThreads

\* check_and_notify, lines 255-261; send_ok is what send_telegram_message
\* returns and delay the time until the next call
CheckAndNotify(current_price) ==
    /\ obs.op = "notify"
    /\ obs.n < MaxCalls
    /\ \E c \in {get_signal_candidate(price_history_file, obs.asset,
                                        Some(current_price), now, TRUE, "ok")} :
       \E send_ok \in BOOLEAN, delay \in CallDelays :
       LET sent == c.cand.signal # NoSignal /\ send_ok
       IN  /\ now' = now + delay
           /\ price_history_file' = c.file
           /\ appended' = [appended EXCEPT
                 ![obs.asset] = Append(@, Entry(now, current_price))]
           /\ outbox' = IF sent
                        THEN Append(outbox, SignalMessage(now, obs.asset,
                                                 c.cand.signal, current_price))
                        ELSE outbox
           /\ obs' = [obs EXCEPT !.n = @ + 1, !.at = now, !.price = current_price,
                        !.series = c.series, !.called = c.cand.called,
                        !.analysis = c.cand.analysis,
                        !.signal = c.cand.signal, !.sent = sent]
    /\ UNCHANGED <<daily_notification_file, pc, loc>>

NextSignal ==
    \E current_price \in SignalPrices : CheckAndNotify(current_price)

SpecSignal == InitSignal /\ [][NextSignal]_vars

\* the cooldown window of the per-event policy, in hours
CooldownHours == 6

Signals == {i \in 1..Len(outbox) : outbox[i].kind = "signal"}

\* C4: any two per-event signal notifications for the same
\* (asset, direction) are at least the cooldown window apart.
C4_Cooldown ==
    \A i \in Signals : \A j \in Signals :
        (i < j /\ outbox[i].asset = outbox[j].asset
               /\ outbox[i].direction = outbox[j].direction)
        => outbox[j].at - outbox[i].at >= CooldownHours

\* the last call reached get_trading_signal; obs.analysis is what it returned
Analysed == obs.op = "notify" /\ obs.n > 0 /\ obs.called

\* C5: the decision is BUY whenever buy_signals >= 2, whatever sell_signals
\* is; SELL only when buy_signals < 2 and sell_signals >= 2; no signal
\* otherwise.
C5_BuyBeforeSell ==
    Analysed =>
      /\ (obs.analysis.buy_signals >= 2 => obs.signal = "BUY")
      /\ (obs.signal = "SELL" <=>
            (obs.analysis.buy_signals < 2 /\ obs.analysis.sell_signals >= 2))
      /\ ((obs.analysis.buy_signals < 2 /\ obs.analysis.sell_signals < 2)
            => obs.signal = NoSignal)

\* Scenario A: 31 ascending points, 2 buy votes against 3 sell votes, BUY
C5_Witness ==
    /\ Analysed
    /\ obs.series = Ramp \o <<RampTop>>
    /\ obs.analysis.buy_signals = 2 /\ obs.analysis.sell_signals = 3
    /\ obs.signal = "BUY"

\* C6: when support and resistance of the last 20 points are defined,
\* resistance > support and (resistance - support) / ((resistance +
\* support) / 2) < 0.005, the call yields no candidate, whatever the votes.
C6_VolatilityGate ==
    (obs.op = "notify" /\ obs.n > 0 /\ Len(obs.series) >= MIN_HISTORY_FOR_SIGNALS) =>
      LET support == MinSeq(LastN(obs.series, 20))
          resistance == MaxSeq(LastN(obs.series, 20))
      IN  (resistance > support
           /\ 2000 * (resistance - support) < 5 * (resistance + support))
          => (obs.signal = NoSignal /\ ~obs.sent)

\* a flat series that has an upward MA crossover and an upward trend (two
\* buy votes), and no candidate
C6_Witness ==
    /\ obs.op = "notify" /\ obs.n > 0
    /\ Len(obs.series) >= MIN_HISTORY_FOR_SIGNALS
    /\ MaxSeq(LastN(obs.series, 20)) > MinSeq(LastN(obs.series, 20))
    /\ VolatilityGate(obs.series)
    /\ analyze_trend(obs.series, 10, 30) = "bullish"
    /\ VoteMA(calculate_sma(obs.series, 10), calculate_sma(obs.series, 30))[1] = 1
    /\ obs.signal = NoSignal /\ ~obs.called

(***************************************************************************)
(* Specification SpecRecover: ticks and transfer forecasts, one after the  *)
(* other, over persisted files that are absent, complete, incomplete       *)
(* (the text an interrupted json.dump leaves) or, during a call, not       *)
(* readable.                                                               *)
(***************************************************************************)
MaxRecoverOps == 1    \* ticks and forecasts of one run
RecoverPrice == 6000
Amounts == {0, 1000}
DaysUntil == {1, 31}
\* what the three fetches of one tick return: nothing, the GBP rate only,
\* or all three prices
RecoverFetches ==
    {<<None, None, None>>, <<None, None, Some(RecoverPrice)>>,
     <<Some(RecoverPrice), Some(RecoverPrice), Some(RecoverPrice)>>}

\* a store written by earlier runs: seven descending GBP points, one USD point
FallingGbp == [i \in 1..7 |-> Entry(200 + i, 6100 - 10 * i)]
StoredHistory ==
    [a \in {"gbp", "usd"} |->
        IF a = "gbp" THEN FallingGbp ELSE <<Entry(207, 4800)>>]

InitRecover ==
    /\ now \in {257, 258}
    /\ price_history_file \in
          {AbsentFile, TruncatedFile, ValidFile(StoredHistory),
           ValidFile([a \in {"gbp"} |-> EntriesOf(Ramp, now)])}
    /\ daily_notification_file \in
          {AbsentFile, TruncatedFile,
           ValidFile([k \in {"last_sent_date"} |-> DateOf(now)])}
    /\ outbox = <<>>
    /\ appended = NoAppends
    /\ obs = TickObs0
    /\ pc = NoThreads
    /\ loc = NoThreads

\* check_all_prices, under any behaviour of the file system
RecoverTick(gold, usd, gbp, send_ok, io) ==
    /\ obs.n < MaxRecoverOps
    /\ TickStep(gold, usd, gbp, send_ok, 1, io)

\* check_paypal_transfer called by the /paypal-check route
Forecast(gbp_amount, current_rate, days_until, r_history, send_ok) ==
    /\ obs.n < MaxRecoverOps
    /\ outbox' = check_paypal_transfer(outbox, now,
                     calculate_paypal_transfer(price_history_file, gbp_amount,
                                               current_rate, days_until, r_history),
                     send_ok)
    /\ obs' = [TickObs0 EXCEPT
                 !.last = "forecast", !.n = obs.n + 1, !.at = now,
                 !.fetched = <<None, None, current_rate>>,
                 !.history_was = FoundAs(price_history_file, r_history),
                 !.amount = gbp_amount,
                 !.forecast = calculate_paypal_transfer(price_history_file,
                                  gbp_amount, current_rate, days_until, r_history),
                 !.raised = calculate_paypal_transfer(price_history_file,
                                  gbp_amount, current_rate, days_until,
                                  r_history).raised]
    /\ now' = now + 1
    /\ UNCHANGED <<price_history_file, daily_notification_file,
                   appended, pc, loc>>

NextRecover ==
    \/ \E fetched \in RecoverFetches, send_ok \in BOOLEAN, io \in FileSystem :
          RecoverTick(fetched[1], fetched[2], fetched[3], send_ok, io)
    \/ \E gbp_amount \in Amounts, current_rate \in {None, Some(RecoverPrice)},
          days_until \in DaysUntil, r_history, send_ok \in BOOLEAN :
          Forecast(gbp_amount, current_rate, days_until, r_history, send_ok)

SpecRecover == InitRecover /\ [][NextRecover]_vars

BadFile == {"corrupt", "unreadable"}

\* the series a cold start leaves for an asset after one tick
ColdSeries(a) ==
    LET p == CASE a = "gold_24k" -> obs.fetched[1]
               [] a = "usd" -> obs.fetched[2]
               [] OTHER -> obs.fetched[3]
    IN  IF Truthy(p) THEN <<Entry(obs.at, p[1])>> ELSE <<>>

TickThreads == {"tick1", "tick2"}
ConcThreads == TickThreads \cup {"web"}
AssetOrder == <<"gold_24k", "usd", "gbp">>

\* the prices the two runs fetch: distinct, so that their points differ
ThreadPrice(t) == IF t = "tick1" THEN 6010 ELSE 6020
\* (the gold fetch fails in both; one run gets GBP or USD and GBP, the
\* other GBP or USD)
ConcFetches(t) ==
    IF t = "tick1"
    THEN {<<None, None, Some(ThreadPrice(t))>>,
          <<None, Some(ThreadPrice(t)), Some(ThreadPrice(t))>>}
    ELSE {<<None, None, Some(ThreadPrice(t))>>,
          <<None, Some(ThreadPrice(t)), None>>}
ConcAmount == 1000
ConcDays == 15

Local0 ==
    [fetched |-> <<None, None, None>>, i |-> 0, history |-> EmptyDict,
     clean |-> TRUE, series |-> <<>>,
     signals |-> <<NoSignal, NoSignal, NoSignal>>]

ConcObs0 ==
    [op |-> "conc", crashed |-> FALSE,
     versions |-> {StoredHistory}, daily_versions |-> {EmptyDict},
     web_seen |-> None, web_allowed |-> {}, forecast |-> NoForecast,
     restart_history |-> EmptyDict, restart_daily |-> EmptyDict]

InitConc ==
    /\ now = 258
    /\ price_history_file = ValidFile(StoredHistory)
    /\ daily_notification_file = AbsentFile
    /\ outbox = <<>>
    /\ appended = NoAppends
    /\ obs = ConcObs0
    /\ pc = [t \in ConcThreads |-> "idle"]
    /\ loc = [t \in ConcThreads |-> Local0]

\* check_all_prices, lines 404-419: the next asset whose price is truthy,
\* 4 when there is none
NextAsset(fetched, i) ==
    IF \E j \in (i + 1)..3 : Truthy(fetched[j])
    THEN CHOOSE j \in (i + 1)..3 :
            Truthy(fetched[j]) /\ \A k \in (i + 1)..(j - 1) : ~Truthy(fetched[k])
    ELSE 4
AfterAsset(fetched, i) == IF NextAsset(fetched, i) <= 3 THEN "load" ELSE "gate"

\* the text of a file written through a handle that was opened before
\* another writer wrote the file: this writer's document, or its document
\* followed by the rest of the longer one (not a JSON document)
WrittenFiles(document, clean) ==
    IF clean THEN {ValidFile(document)} ELSE {ValidFile(document), TruncatedFile}

\* every other handle open on the same file has now been written over
Dirty(l, t, writing) ==
    [u \in ConcThreads |->
        IF u # t /\ pc[u] = writing THEN [l[u] EXCEPT !.clean = FALSE] ELSE l[u]]

\* check_all_prices starts; the prices it will fetch are fixed here
StartTick(t, fetched) ==
    /\ pc[t] = "idle"
    /\ loc' = [loc EXCEPT ![t] = [Local0 EXCEPT !.fetched = fetched,
                                               !.i = NextAsset(fetched, 0)]]
    /\ pc' = [pc EXCEPT ![t] = AfterAsset(fetched, 0)]
    /\ UNCHANGED <<now, price_history_file, daily_notification_file, outbox,
                   appended, obs>>

\* add_price_entry, lines 208-223: load the store and build the new dict
LoadStore(t) ==
    /\ pc[t] = "load"
    /\ LET asset_type == AssetOrder[loc[t].i]
           entry == Entry(now, loc[t].fetched[loc[t].i][1])
       IN  /\ loc' = [loc EXCEPT ![t].history =
                        AddEntry(load_price_history(price_history_file, TRUE),
                                 asset_type, entry)]
           /\ appended' = [appended EXCEPT ![asset_type] = Append(@, entry)]
    /\ pc' = [pc EXCEPT ![t] = "open"]
    /\ UNCHANGED <<now, price_history_file, daily_notification_file, outbox, obs>>

\* save_price_history, line 37: open(PRICE_HISTORY_FILE, 'w')
OpenStore(t) ==
    /\ pc[t] = "open"
    /\ price_history_file' = OpenForWrite(price_history_file)
    /\ loc' = [loc EXCEPT ![t].clean = TRUE]
    /\ obs' = [obs EXCEPT !.versions = @ \cup {loc[t].history}]
    /\ pc' = [pc EXCEPT ![t] = "dump"]
    /\ UNCHANGED <<now, daily_notification_file, outbox, appended>>

\* save_price_history, line 38 and the close of the with block
DumpStore(t) ==
    /\ pc[t] = "dump"
    /\ price_history_file' \in WrittenFiles(loc[t].history, loc[t].clean)
    /\ loc' = Dirty(loc, t, "dump")
    /\ pc' = [pc EXCEPT ![t] = "reread"]
    /\ UNCHANGED <<now, daily_notification_file, outbox, appended, obs>>

\* _get_signal_candidate, lines 136-163
Reread(t) ==
    /\ pc[t] = "reread"
    /\ \E price_history \in {get_price_history_list(price_history_file,
                                  AssetOrder[loc[t].i], TRUE)} :
         loc' = [loc EXCEPT
                   ![t].series = price_history,
                   ![t].signals[loc[t].i] =
                       Candidate(price_history, loc[t].fetched[loc[t].i][1]).signal,
                   ![t].i = NextAsset(loc[t].fetched, loc[t].i)]
    /\ pc' = [pc EXCEPT ![t] = AfterAsset(loc[t].fetched, loc[t].i)]
    /\ UNCHANGED <<now, price_history_file, daily_notification_file, outbox,
                   appended, obs>>

\* check_all_prices, line 422
Gate(t) ==
    /\ pc[t] = "gate"
    /\ pc' = [pc EXCEPT ![t] =
                IF should_send_daily_notification(daily_notification_file, now, TRUE)
                THEN "send" ELSE "done"]
    /\ UNCHANGED <<now, price_history_file, daily_notification_file, outbox,
                   appended, obs, loc>>

\* check_all_prices, lines 425-434
Send(t, send_ok) ==
    /\ pc[t] = "send"
    /\ outbox' = IF send_ok
                 THEN Append(outbox,
                        DigestMessage(now, loc[t].fetched[1], loc[t].fetched[2],
                                      loc[t].fetched[3], loc[t].signals))
                 ELSE outbox
    /\ pc' = [pc EXCEPT ![t] = IF send_ok THEN "record_open" ELSE "done"]
    /\ UNCHANGED <<now, price_history_file, daily_notification_file,
                   appended, obs, loc>>

\* save_daily_notification, line 57: open(DAILY_NOTIFICATION_FILE, "w")
OpenDaily(t) ==
    /\ pc[t] = "record_open"
    /\ daily_notification_file' = OpenForWrite(daily_notification_file)
    /\ loc' = [loc EXCEPT ![t].clean = TRUE]
    /\ obs' = [obs EXCEPT !.daily_versions =
                 @ \cup {[k \in {"last_sent_date"} |-> DateOf(now)]}]
    /\ pc' = [pc EXCEPT ![t] = "record_dump"]
    /\ UNCHANGED <<now, price_history_file, outbox, appended>>

\* save_daily_notification, line 58 and the close of the with block
DumpDaily(t) ==
    /\ pc[t] = "record_dump"
    /\ daily_notification_file' \in
          WrittenFiles([k \in {"last_sent_date"} |-> DateOf(now)], loc[t].clean)
    /\ loc' = Dirty(loc, t, "record_dump")
    /\ pc' = [pc EXCEPT ![t] = "done"]
    /\ UNCHANGED <<now, price_history_file, outbox, appended, obs>>

\* the same, the request saving back the store it loaded
WebForecast_writeBack(current_rate, send_ok) ==
    /\ pc["web"] = "idle"
    /\ \E decision \in {calculate_paypal_transfer(price_history_file, ConcAmount,
                                                  current_rate, ConcDays, TRUE)} :
         /\ outbox' = check_paypal_transfer(outbox, now, decision, send_ok)
         /\ obs' = [obs EXCEPT
                      !.web_seen = IF decision.made
                                   THEN Some(load_price_history(price_history_file,
                                                                TRUE))
                                   ELSE None,
                      !.web_allowed = obs.versions,
                      !.forecast = decision]
    /\ price_history_file' =
          save_price_history(price_history_file,
                             load_price_history(price_history_file, TRUE), "ok")
    /\ pc' = [pc EXCEPT !["web"] = "done"]
    /\ UNCHANGED <<now, daily_notification_file, appended, loc>>

\* check_paypal_transfer in a request thread, with the rate get_gbp_rate
\* returned; its one access to the store is the load of line 76 of
\* calculate_paypal_transfer, reached when the rate is available
WebForecast(current_rate, send_ok) ==
    /\ pc["web"] = "idle"
    /\ \E decision \in {calculate_paypal_transfer(price_history_file, ConcAmount,
                                                  current_rate, ConcDays, TRUE)} :
         /\ outbox' = check_paypal_transfer(outbox, now, decision, send_ok)
         /\ obs' = [obs EXCEPT
                      !.web_seen = IF decision.made
                                   THEN Some(load_price_history(price_history_file,
                                                                TRUE))
                                   ELSE None,
                      !.web_allowed = obs.versions,
                      !.forecast = decision]
    /\ pc' = [pc EXCEPT !["web"] = "done"]
    /\ UNCHANGED <<now, price_history_file, daily_notification_file,
                   appended, loc>>

\* the process dies while a thread is running (its threads and their
\* locals are gone), and the restart loads the two files
Crash ==
    /\ \E t \in ConcThreads : pc[t] \notin {"idle", "done", "dead"}
    /\ pc' = [t \in ConcThreads |-> "dead"]
    /\ loc' = [t \in ConcThreads |-> Local0]
    /\ obs' = [obs EXCEPT
                 !.crashed = TRUE,
                 !.restart_history = load_price_history(price_history_file, TRUE),
                 !.restart_daily =
                     load_daily_notification(daily_notification_file, TRUE)]
    /\ UNCHANGED <<now, price_history_file, daily_notification_file, outbox,
                   appended>>

NextConc ==
    \/ \E t \in TickThreads : \E fetched \in ConcFetches(t) : StartTick(t, fetched)
    \/ \E t \in TickThreads : LoadStore(t)
    \/ \E t \in TickThreads : OpenStore(t)
    \/ \E t \in TickThreads : DumpStore(t)
    \/ \E t \in TickThreads : Reread(t)
    \/ \E t \in TickThreads : Gate(t)
    \/ \E t \in TickThreads : \E send_ok \in BOOLEAN : Send(t, send_ok)
    \/ \E t \in TickThreads : OpenDaily(t)
    \/ \E t \in TickThreads : DumpDaily(t)
    \/ \E current_rate \in {None, Some(RecoverPrice)}, send_ok \in BOOLEAN :
          WebForecast(current_rate, send_ok)
    \/ Crash

SpecConc == InitConc /\ [][NextConc]_vars

\* history.get(asset, [])
SeriesIn(history, a) == IF a \in DOMAIN history THEN history[a] ELSE <<>>

\* C7: what a forecast reads from the store while appends are running is,
\* for each asset, the series of one of the complete stores: the one before
\* an append or the one an append writes.
C7_ReaderSeesCompleteStore ==
    (obs.op = "conc" /\ obs.web_seen # None) =>
      \A a \in Assets :
         SeriesIn(obs.web_seen[1], a) \in {SeriesIn(v, a) : v \in obs.web_allowed}

\* C8: once two overlapping runs have both finished, every point either of
\* them appended is in the persisted store.
C8_NoLostUpdate ==
    (obs.op = "conc" /\ \A t \in TickThreads : pc[t] = "done") =>
      \A a \in Assets : \A i \in 1..Len(appended[a]) :
         \E j \in 1..Len(StoredSeries(price_history_file, a)) :
            StoredSeries(price_history_file, a)[j] = appended[a][i]

\* C9: after a crash, the restart loads a store that was committed or that
\* a save was writing, and a digest record likewise, never an emptied one.
C9_CrashAtomicSave ==
    (obs.op = "conc" /\ obs.crashed) =>
      /\ obs.restart_history \in obs.versions
      /\ obs.restart_daily \in obs.daily_versions

(***************************************************************************)
(* Specification SpecStrategy: the functions of trading_strategy.py and    *)
(* the candidate of _get_signal_candidate applied to one series, drawn     *)
(* from three families of series.                                          *)
(***************************************************************************)
MaxApplications == 1   \* function applications of one run

\* len points: all at base, then one gain g and one loss l at the end
Pulse(base, len, g, l) ==
    [i \in 1..len |-> IF i <= len - 2 THEN base
                      ELSE IF i = len - 1 THEN base + g ELSE base + g - l]

\* len points: the last ten at lo, the ones before at hi
Step(hi, lo, len) == [i \in 1..len |-> IF i <= len - 10 THEN hi ELSE lo]

\* len points rising (or falling) by step
Rise(base, step, len) == [i \in 1..len |-> base + step * (i - 1)]

\* the lengths are on both sides of period + 1 = 15, lookback = 20 and
\* min_history = 30; a gain and a loss of 300 : 700, 200 : 300, 300 : 200
\* and 700 : 300 give an RSI of exactly 30, 40, 60 and 70
StrategyInputs ==
    {Pulse(base, len, g, l) :
        base \in {0, 10000},
        len \in {0, 1, 2, 14, 15, 16, 19, 20, 29, 30, 31},
        g \in {0, 1, 200, 299, 300, 301, 700},
        l \in {0, 1, 200, 299, 300, 301, 700}}
    \cup {Step(c[1], c[2], len) :
             c \in {<<100, 0>>, <<0, 100>>, <<100, 100>>, <<0, 0>>, <<-50, 100>>,
                    <<100, 120>>, <<120, 100>>},
             len \in {15, 29, 30, 31}}
    \cup {Rise(base, step, len) :
             base \in {-10000, 0, 10000}, step \in {-20, -1, 1, 5, 20},
             len \in {3, 15, 29, 30}}

\* the current prices tried with a series: its last price, and the prices
\* at and next to 0%, 20%, 80% and 100% of the range of its last 20 points
CurrentPrices(prices) ==
    IF Len(prices) = 0 THEN {0}
    ELSE IF Len(prices) < 20 THEN {prices[Len(prices)]}
    ELSE LET support == MinSeq(LastN(prices, 20))
             price_range == MaxSeq(LastN(prices, 20)) - support
         IN  {prices[Len(prices)]} \cup
             {support + (k * price_range) \div 5 + d : k \in {0, 1, 4, 5}, d \in {-1, 0, 1}}

StrategyObs0 ==
    [op |-> "strategy", n |-> 0, last |-> "none", prices |-> <<>>,
     current_price |-> 0, analysis |-> NoAnalysis, period |-> 0, rsi |-> None,
     cand |-> NoCandidate]

InitStrategy ==
    /\ now = 0
    /\ price_history_file = AbsentFile
    /\ daily_notification_file = AbsentFile
    /\ outbox = <<>>
    /\ appended = NoAppends
    /\ \E prices \in StrategyInputs : obs = [StrategyObs0 EXCEPT !.prices = prices]
    /\ pc = NoThreads
    /\ loc = NoThreads

\* get_trading_signal(prices, current_price, 30); rsi is the indicator
\* calculate_rsi(prices, 14) it puts in the analysis
GetTradingSignal(current_price) ==
    /\ obs.op = "strategy" /\ obs.n < MaxApplications
    /\ \E an \in {get_trading_signal(obs.prices, current_price,
                                     MIN_HISTORY_FOR_SIGNALS)} :
         obs' = [StrategyObs0 EXCEPT
                   !.n = obs.n + 1, !.last = "signal", !.prices = obs.prices,
                   !.current_price = current_price, !.analysis = an,
                   !.period = 14, !.rsi = calculate_rsi(obs.prices, 14)]
    /\ UNCHANGED <<now, price_history_file, daily_notification_file, outbox,
                   appended, pc, loc>>

\* calculate_rsi(prices, period)
CalculateRsi(period) ==
    /\ obs.op = "strategy" /\ obs.n < MaxApplications
    /\ obs' = [StrategyObs0 EXCEPT
                 !.n = obs.n + 1, !.last = "rsi", !.prices = obs.prices,
                 !.period = period, !.rsi = calculate_rsi(obs.prices, period)]
    /\ UNCHANGED <<now, price_history_file, daily_notification_file, outbox,
                   appended, pc, loc>>

\* _get_signal_candidate, lines 136-163, on the series read back
SignalCandidate(current_price) ==
    /\ obs.op = "strategy" /\ obs.n < MaxApplications
    /\ \E c \in {Candidate(obs.prices, current_price)} :
         obs' = [StrategyObs0 EXCEPT
                   !.n = obs.n + 1, !.last = "candidate", !.prices = obs.prices,
                   !.current_price = current_price, !.cand = c]
    /\ UNCHANGED <<now, price_history_file, daily_notification_file, outbox,
                   appended, pc, loc>>

NextStrategy ==
    \/ \E current_price \in CurrentPrices(obs.prices) : GetTradingSignal(current_price)
    \/ \E period \in {2, 14} : CalculateRsi(period)
    \/ \E current_price \in CurrentPrices(obs.prices) : SignalCandidate(current_price)

SpecStrategy == InitStrategy /\ [][NextStrategy]_vars

\* C13: for a series of fewer than 30 points get_trading_signal returns no
\* signal and the insufficient-history analysis (no vote, no reason), and
\* _get_signal_candidate yields no candidate without calling it.
C13_InsufficientHistory ==
    (obs.op = "strategy" /\ Len(obs.prices) < MIN_HISTORY_FOR_SIGNALS) =>
      /\ obs.last = "signal" =>
           /\ obs.analysis.signal = NoSignal
           /\ obs.analysis.insufficient
           /\ obs.analysis.buy_signals = 0 /\ obs.analysis.sell_signals = 0
           /\ obs.analysis.reasons = <<>>
      /\ obs.last = "candidate" =>
           /\ obs.cand.signal = NoSignal
           /\ ~obs.cand.called

\* 29 points whose analysis, were it made, has votes (an RSI of 0)
C13_Witness ==
    /\ obs.op = "strategy" /\ obs.last = "signal"
    /\ Len(obs.prices) = 29
    /\ calculate_rsi(obs.prices, 14) = Some(0)
    /\ obs.analysis.insufficient /\ obs.analysis.signal = NoSignal

\* how many times a reason is in the reasons of an analysis
CountOf(reasons, r) == Cardinality({i \in 1..Len(reasons) : reasons[i] = r})

\* C14: for a series of at least 30 points the analysis holds exactly one
\* MA buy vote when SMA(10) > SMA(30), exactly one MA sell vote when
\* SMA(10) < SMA(30) and no MA vote when they are equal, whatever the two
\* averages are (an average of 0 included).
C14_MACrossoverVote ==
    (obs.op = "strategy" /\ obs.last = "signal"
       /\ Len(obs.prices) >= MIN_HISTORY_FOR_SIGNALS) =>
      LET sum_10 == SumSeq(LastN(obs.prices, 10))
          sum_30 == SumSeq(LastN(obs.prices, 30))
      IN  /\ CountOf(obs.analysis.reasons, "MA bullish") =
                IF 3 * sum_10 > sum_30 THEN 1 ELSE 0
          /\ CountOf(obs.analysis.reasons, "MA bearish") =
                IF 3 * sum_10 < sum_30 THEN 1 ELSE 0

\* the <<buy, sell>> votes a reason stands for: lines 206-246
VotesOf(r) ==
    CASE r \in {"MA bullish", "RSI approaching oversold", "near support",
                "Trend bullish"} -> <<1, 0>>
      [] r \in {"MA bearish", "RSI approaching overbought", "near resistance",
                "Trend bearish"} -> <<0, 1>>
      [] r = "RSI oversold" -> <<2, 0>>
      [] r = "RSI overbought" -> <<0, 2>>
      [] OTHER -> <<0, 0>>

\* the RSI reasons of an analysis, in order
RsiVotes(reasons) ==
    SelectSeq(reasons,
              LAMBDA r : r \in {"RSI oversold", "RSI overbought",
                                "RSI approaching oversold",
                                "RSI approaching overbought"})

\* C15: with the RSI r of the analysis (in hundredths), the RSI vote is +2
\* buy for r < 30, +2 sell for r > 70, else +1 buy for r < 40, +1 sell for
\* r > 60 and none for 40 <= r <= 60; every vote of the analysis is counted
\* with its weight in buy_signals and sell_signals.
C15_RsiVote ==
    (obs.op = "strategy" /\ obs.last = "signal"
       /\ Len(obs.prices) >= MIN_HISTORY_FOR_SIGNALS) =>
      /\ obs.rsi # None
      /\ RsiVotes(obs.analysis.reasons) =
           (IF obs.rsi[1] < 3000 THEN <<"RSI oversold">>
            ELSE IF obs.rsi[1] > 7000 THEN <<"RSI overbought">>
            ELSE IF obs.rsi[1] < 4000 THEN <<"RSI approaching oversold">>
            ELSE IF obs.rsi[1] > 6000 THEN <<"RSI approaching overbought">>
            ELSE <<>>)
      /\ obs.analysis.buy_signals =
           SumSeq([i \in 1..Len(obs.analysis.reasons) |->
                      VotesOf(obs.analysis.reasons[i])[1]])
      /\ obs.analysis.sell_signals =
           SumSeq([i \in 1..Len(obs.analysis.reasons) |->
                      VotesOf(obs.analysis.reasons[i])[2]])

\* an RSI of exactly 30.00 gets the weak buy vote
C15_Witness ==
    /\ obs.op = "strategy" /\ obs.last = "signal"
    /\ Len(obs.prices) >= MIN_HISTORY_FOR_SIGNALS
    /\ obs.rsi = Some(3000)
    /\ RsiVotes(obs.analysis.reasons) = <<"RSI approaching oversold">>


\* C16: for a series of at least 30 points, with support and resistance the
\* minimum and the maximum of the last 20 points and
\* pos = (current_price - support) / (resistance - support), the analysis
\* holds exactly one support buy vote when resistance > support and
\* pos < 0.2, exactly one resistance sell vote when resistance > support and
\* pos > 0.8, and neither when resistance = support, whatever the support
\* is (0 included).
C16_SupportResistanceVote ==
    (obs.op = "strategy" /\ obs.last = "signal"
       /\ Len(obs.prices) >= MIN_HISTORY_FOR_SIGNALS) =>
      LET support == MinSeq(LastN(obs.prices, 20))
          resistance == MaxSeq(LastN(obs.prices, 20))
          price_range == resistance - support
      IN  /\ CountOf(obs.analysis.reasons, "near support") =
                IF price_range > 0 /\ 5 * (obs.current_price - support) < price_range
                THEN 1 ELSE 0
          /\ CountOf(obs.analysis.reasons, "near resistance") =
                IF price_range > 0
                   /\ 5 * (obs.current_price - support) > 4 * price_range
                THEN 1 ELSE 0


\* C17: for a series of at least period + 1 points whose last `period`
\* changes are all smaller, in absolute value, than 0.05% of the latest
\* price, calculate_rsi returns exactly 50, whatever the gains and the
\* losses are.
C17_FlatMarketGuard ==
    (obs.op = "strategy" /\ obs.last = "rsi"
       /\ Len(obs.prices) >= obs.period + 1
       /\ \A k \in (Len(obs.prices) - obs.period + 1)..Len(obs.prices) :
             2000 * Abs(obs.prices[k] - obs.prices[k - 1])
                < obs.prices[Len(obs.prices)]) =>
      obs.rsi = Some(5000)

\* a flat series over 14 changes, every one of them a gain
C17_Witness ==
    /\ obs.op = "strategy" /\ obs.last = "rsi" /\ obs.period = 14
    /\ Len(obs.prices) >= obs.period + 1
    /\ \A k \in (Len(obs.prices) - obs.period + 1)..Len(obs.prices) :
          /\ obs.prices[k] > obs.prices[k - 1]
          /\ 2000 * (obs.prices[k] - obs.prices[k - 1]) < obs.prices[Len(obs.prices)]
    /\ obs.rsi = Some(5000)


\* every one of the last `period` changes is a gain
AllGains(prices, period) ==
    \A k \in (Len(prices) - period + 1)..Len(prices) : prices[k] > prices[k - 1]

\* the flat-market guard of lines 91-95 applies
FlatMarket(prices, period) ==
    /\ prices[Len(prices)] # 0
    /\ \A k \in (Len(prices) - period + 1)..Len(prices) :
          2000 * Abs(prices[k] - prices[k - 1]) < Abs(prices[Len(prices)])

\* C18 as stated: an RSI that is defined lies in [0, 100], and is exactly
\* 100 when every one of the last `period` changes is a gain.
C18_RangeAndAllGains ==
    (obs.op = "strategy" /\ obs.last = "rsi" /\ obs.rsi # None) =>
      /\ obs.rsi[1] >= 0 /\ obs.rsi[1] <= 10000
      /\ AllGains(obs.prices, obs.period) => obs.rsi = Some(10000)

\* C18: an RSI that is defined lies in [0, 100]; when every one of the last
\* `period` changes is a gain it is exactly 100, unless the latest price is
\* not 0 and every one of these changes is below 0.05% of its absolute
\* value, and then it is exactly 50.
C18_RangeAndAllGainsUnlessFlat ==
    (obs.op = "strategy" /\ obs.last = "rsi" /\ obs.rsi # None) =>
      /\ obs.rsi[1] >= 0 /\ obs.rsi[1] <= 10000
      /\ AllGains(obs.prices, obs.period) =>
            obs.rsi = IF FlatMarket(obs.prices, obs.period)
                      THEN Some(5000) ELSE Some(10000)

\* fourteen gains too large for the flat-market guard: the RSI is 100
C18_Witness ==
    /\ obs.op = "strategy" /\ obs.last = "rsi" /\ obs.period = 14
    /\ obs.rsi = Some(10000)
    /\ AllGains(obs.prices, obs.period)
    /\ ~FlatMarket(obs.prices, obs.period)
    /\ obs.prices[Len(obs.prices)] > 0


(***************************************************************************)
(* Specification SpecForecast: transfer forecasts, one after the other,    *)
(* over a store whose GBP series is missing, empty, shorter than seven     *)
(* points, seven points or longer, with rates that fall, stay or rise.     *)
(***************************************************************************)
MaxForecasts == 1    \* forecasts of one run

\* len points, the rate moving by step from one to the next
RateRun(step, len) == [i \in 1..len |-> Entry(200 + i, 6000 + step * (i - 1))]

\* no file, a store without GBP series, and stores whose GBP series is empty,
\* a run of 1, 6 or 7 points, or an older point far above followed by a run
\* of seven
ForecastStores ==
    {AbsentFile, ValidFile([a \in {"usd"} |-> <<Entry(207, 4800)>>])}
      \cup {ValidFile([a \in {"gbp"} |-> h]) :
              h \in {<<>>}
                \cup {RateRun(step, len) :
                        step \in {-100, -10, 0, 10}, len \in {1, 6, 7}}
                \cup {<<Entry(200, 9000)>> \o RateRun(step, 7) :
                        step \in {-100, -10, 0, 10}}}

InitForecast ==
    /\ now = 258
    /\ price_history_file \in ForecastStores
    /\ daily_notification_file = AbsentFile
    /\ outbox = <<>>
    /\ appended = NoAppends
    /\ obs = [op |-> "paypal", n |-> 0, amount |-> 0, current_rate |-> None,
              days_until |-> 0, gbp_history |-> <<>>, forecast |-> NoForecast]
    /\ pc = NoThreads
    /\ loc = NoThreads

\* check_paypal_transfer(gbp_amount) with the rate get_gbp_rate returned and
\* the days calculate_days_until_auto_transfer returned
PaypalCheck(gbp_amount, current_rate, days_until, send_ok) ==
    /\ obs.n < MaxForecasts
    /\ \E decision \in {calculate_paypal_transfer(price_history_file, gbp_amount,
                                                  current_rate, days_until, TRUE)} :
         /\ outbox' = check_paypal_transfer(outbox, now, decision, send_ok)
         /\ obs' = [op |-> "paypal", n |-> obs.n + 1, amount |-> gbp_amount,
                    current_rate |-> current_rate, days_until |-> days_until,
                    gbp_history |-> StoredSeries(price_history_file, "gbp"),
                    forecast |-> decision]
    /\ now' = now + 1
    /\ UNCHANGED <<price_history_file, daily_notification_file,
                   appended, pc, loc>>

\* days_until is what calculate_days_until_auto_transfer returns, the days
\* to the 1st of next month
NextForecast ==
    \E gbp_amount \in {0, 1, 100, 200, 1000},
       current_rate \in {None, Some(0), Some(5000), Some(6000)},
       days_until \in {1, 15, 31}, send_ok \in BOOLEAN :
       PaypalCheck(gbp_amount, current_rate, days_until, send_ok)

SpecForecast == InitForecast /\ [][NextForecast]_vars

\* 300 times current_rate + mean(changes of the last 7 points) * days * 0.5
TrendEstimate(current_rate, gbp_history, days_until) ==
    300 * current_rate
      + 25 * days_until * (gbp_history[Len(gbp_history)].price
                             - gbp_history[Len(gbp_history) - 6].price)

\* C19 as stated: the estimate of a forecast is 0.98 * current_rate with an
\* empty GBP history (1000 GBP at 60.00 then give 58.8, a difference of
\* 1050 and MANUAL_TRANSFER), current_rate with 1 to 6 points, and
\* current_rate + mean(changes of the last 7 points) * days_until * 0.5
\* with 7 points or more.
C19_EstimateByLength ==
    (obs.op = "paypal" /\ obs.forecast.made) =>
      LET c == obs.current_rate[1]
          h == obs.gbp_history
      IN  /\ Len(h) = 0 =>
                /\ obs.forecast.estimated_future_rate = 294 * c
                /\ (obs.amount = 1000 /\ c = 6000) =>
                      /\ obs.forecast.difference = 300 * 1050 * RateUnit
                      /\ obs.forecast.recommendation = "MANUAL_TRANSFER"
          /\ Len(h) \in 1..6 => obs.forecast.estimated_future_rate = 300 * c
          /\ Len(h) >= 7 =>
                obs.forecast.estimated_future_rate =
                    TrendEstimate(c, h, obs.days_until)

\* C19: the same, the estimate with 7 points or more being the larger of
\* current_rate + mean(changes of the last 7 points) * days_until * 0.5 and
\* 0.95 * current_rate.
C19_EstimateByLengthFloored ==
    (obs.op = "paypal" /\ obs.forecast.made) =>
      LET c == obs.current_rate[1]
          h == obs.gbp_history
      IN  /\ Len(h) = 0 =>
                /\ obs.forecast.estimated_future_rate = 294 * c
                /\ (obs.amount = 1000 /\ c = 6000) =>
                      /\ obs.forecast.difference = 300 * 1050 * RateUnit
                      /\ obs.forecast.recommendation = "MANUAL_TRANSFER"
          /\ Len(h) \in 1..6 => obs.forecast.estimated_future_rate = 300 * c
          /\ Len(h) >= 7 =>
                obs.forecast.estimated_future_rate =
                    IF TrendEstimate(c, h, obs.days_until) >= 285 * c
                    THEN TrendEstimate(c, h, obs.days_until)
                    ELSE 285 * c

\* a forecast over exactly seven falling points whose trend estimate is
\* below the current rate and above the floor
C19_Witness ==
    /\ obs.op = "paypal" /\ obs.forecast.made
    /\ Len(obs.gbp_history) = 7
    /\ obs.forecast.estimated_future_rate < 300 * obs.current_rate[1]
    /\ obs.forecast.estimated_future_rate > 285 * obs.current_rate[1]

\* C20: the estimated future rate of a forecast is never below
\* 0.95 * current_rate, whatever the rate history and days_until are.
C20_EstimateFloor ==
    (obs.op = "paypal" /\ obs.forecast.made /\ obs.current_rate[1] > 0) =>
      obs.forecast.estimated_future_rate >= 285 * obs.current_rate[1]

\* a forecast whose trend estimate is below the floor and that returns the
\* floor
C20_Witness ==
    /\ obs.op = "paypal" /\ obs.forecast.made
    /\ Len(obs.gbp_history) >= 7
    /\ TrendEstimate(obs.current_rate[1], obs.gbp_history, obs.days_until)
          < 285 * obs.current_rate[1]
    /\ obs.forecast.estimated_future_rate = 285 * obs.current_rate[1]


(***************************************************************************)
(* Specification SpecAssets: ticks of check_all_prices, with files that    *)
(* read and write without fault, over a store that holds for each asset    *)
(* no point or 30 points, every asset's price being fetched, missing       *)
(* (None) or 0.                                                            *)
(***************************************************************************)
MaxAssetTicks == 1    \* ticks of one run

InitAssets ==
    /\ now = 258
    \* no point, the ramp, or 26 points at 10000 and a fall to 9600
    /\ \E h \in [Assets -> {<<>>, Ramp, Runs(<<10000, 10000, 10000, 9600>>)}] :
         price_history_file = ValidFile([a \in Assets |-> EntriesOf(h[a], now)])
    /\ daily_notification_file = AbsentFile
    /\ outbox = <<>>
    /\ appended = NoAppends
    /\ obs = TickObs0
    /\ pc = NoThreads
    /\ loc = NoThreads

AssetTick(gold, usd, gbp, send_ok) ==
    /\ obs.n < MaxAssetTicks
    /\ TickStep(gold, usd, gbp, send_ok, 1, FaultFree)

NextAssets ==
    \E gold \in {None, Some(0), Some(RampTop)},
       usd \in {None, Some(0), Some(10000)},
       gbp \in {None, Some(0), Some(9600)}, send_ok \in BOOLEAN :
       AssetTick(gold, usd, gbp, send_ok)

SpecAssets == InitAssets /\ [][NextAssets]_vars

\* C11: in a tick, whatever prices are available among gold, USD and GBP,
\* every asset whose price is available gets exactly one point appended to
\* its stored series (the oldest dropped beyond MAX_HISTORY_ENTRIES) and the
\* signal evaluated over that series with that price; every asset whose
\* price is unavailable keeps its series and gets no signal.
C11_AssetsIndependent ==
    [][obs'.n # obs.n =>
         \A i \in 1..3 :
            \E before \in {StoredSeries(price_history_file, AssetOrder[i])} :
            \E after \in {StoredSeries(price_history_file', AssetOrder[i])} :
               IF Truthy(obs'.fetched[i])
               THEN /\ after = LastN(Append(before,
                                       Entry(obs'.at, obs'.fetched[i][1])),
                                     MAX_HISTORY_ENTRIES)
                    /\ \E prices \in {[k \in 1..Len(after) |-> after[k].price]} :
                          obs'.signals[i] =
                             Candidate(prices, obs'.fetched[i][1]).signal
               ELSE /\ after = before
                    /\ obs'.signals[i] = NoSignal]_vars

\* a tick with no gold price and a USD rate of 0: the GBP series got its
\* 31st point and a signal, the two other series still hold 30 points
C11_Witness ==
    /\ obs.op = "tick" /\ obs.last = "tick"
    /\ obs.fetched[1] = None /\ obs.fetched[2] = Some(0)
    /\ Truthy(obs.fetched[3])
    /\ obs.signals[3] # NoSignal
    /\ Len(StoredSeries(price_history_file, "gbp")) = 31
    /\ Len(StoredSeries(price_history_file, "gold_24k")) = 30
    /\ Len(StoredSeries(price_history_file, "usd")) = 30


\* C12: a step leaves the stored series of an asset as it was, or, in a
\* tick that fetched a price for this asset, as it was with the point of
\* this tick appended (the oldest dropped beyond MAX_HISTORY_ENTRIES): no
\* stored point is altered or removed otherwise, and a series whose price
\* was unavailable is unchanged.
C12_PointsOnlyAppended ==
    [][obs'.n # obs.n =>
         \A i \in 1..3 :
            \E before \in {StoredSeries(price_history_file, AssetOrder[i])} :
            \E after \in {StoredSeries(price_history_file', AssetOrder[i])} :
               \/ after = before
               \/ /\ obs'.last = "tick" /\ Truthy(obs'.fetched[i])
                  /\ after = LastN(Append(before,
                                     Entry(obs'.at, obs'.fetched[i][1])),
                                   MAX_HISTORY_ENTRIES)]_vars


\* C21: the difference of a forecast is
\* (amount * current_rate - 150) - amount * estimated_future_rate, and the
\* recommendation is MANUAL_TRANSFER exactly when it is above 50,
\* WAIT_FOR_AUTO exactly when it is below -50 and EITHER otherwise, 50 and
\* -50 included.
C21_Recommendation ==
    (obs.op = "paypal" /\ obs.forecast.made) =>
      LET egp300 == 300 * 100
          difference == 300 * obs.amount * obs.current_rate[1] - 150 * egp300
                        - obs.amount * obs.forecast.estimated_future_rate
      IN  /\ obs.forecast.difference = difference
          /\ obs.forecast.recommendation = "MANUAL_TRANSFER"
                <=> difference > 50 * egp300
          /\ obs.forecast.recommendation = "WAIT_FOR_AUTO"
                <=> difference < -50 * egp300
          /\ obs.forecast.recommendation = "EITHER"
                <=> (difference >= -50 * egp300 /\ difference <= 50 * egp300)

\* 200 GBP at 50.00 with no history: the difference is exactly 50 and the
\* recommendation EITHER
C21_Witness ==
    /\ obs.op = "paypal" /\ obs.forecast.made
    /\ obs.amount = 200 /\ obs.current_rate = Some(5000)
    /\ obs.forecast.difference = 50 * 300 * 100
    /\ obs.forecast.recommendation = "EITHER"


\* C22: a forecast request made while the current rate is unavailable (None,
\* or the 0 of a rates table without EGP) returns no forecast, with no
\* estimate and no recommendation whatever rates the store holds, raises
\* nothing, and the only message it sends is the error message.
C22_NoForecastWithoutRate ==
    [][(obs'.op = "paypal" /\ obs'.n # obs.n /\ obs'.amount > 0
          /\ ~Truthy(obs'.current_rate)) =>
         /\ ~obs'.forecast.made /\ ~obs'.forecast.raised
         /\ obs'.forecast.recommendation = "NONE"
         /\ obs'.forecast.estimated_future_rate = 0
         /\ \/ outbox' = outbox
            \/ /\ Len(outbox') = Len(outbox) + 1
               /\ outbox'[Len(outbox')].kind = "forecast_error"]_vars

\* a request for 1000 GBP with no current rate, over a store that holds
\* seven GBP rates: no forecast, and the error message was sent
C22_Witness ==
    /\ obs.op = "paypal" /\ obs.n > 0 /\ obs.amount = 1000
    /\ obs.current_rate = None
    /\ Len(obs.gbp_history) = 7
    /\ ~obs.forecast.made
    /\ outbox # <<>> /\ outbox[Len(outbox)].kind = "forecast_error"


\* C23: the reasons of an analysis name indicators in the order MA
\* crossover, RSI, support/resistance, trend, each at most once, and the
\* votes they stand for (2 for a strong RSI reason, 1 otherwise) are all
\* the votes counted: an indicator has a reason exactly when it has a vote.
C23_ReasonsInOrder ==
    (obs.op = "strategy" /\ obs.last = "signal"
       /\ Len(obs.prices) >= MIN_HISTORY_FOR_SIGNALS) =>
      LET reasons == obs.analysis.reasons
          rank(r) == CASE r \in {"MA bullish", "MA bearish"} -> 1
                       [] r \in {"near support", "near resistance"} -> 3
                       [] r \in {"Trend bullish", "Trend bearish"} -> 4
                       [] OTHER -> 2
      IN  /\ \A i \in 1..Len(reasons) : VotesOf(reasons[i]) # <<0, 0>>
          /\ \A i \in 1..Len(reasons) : \A j \in 1..Len(reasons) :
                i < j => rank(reasons[i]) < rank(reasons[j])
          /\ obs.analysis.buy_signals + obs.analysis.sell_signals =
                SumSeq([i \in 1..Len(reasons) |->
                           VotesOf(reasons[i])[1] + VotesOf(reasons[i])[2]])

\* an analysis in which the four indicators voted
C23_Witness ==
    /\ obs.op = "strategy" /\ obs.last = "signal"
    /\ Len(obs.prices) >= MIN_HISTORY_FOR_SIGNALS
    /\ Len(obs.analysis.reasons) = 4
    /\ obs.analysis.reasons[1] \in {"MA bullish", "MA bearish"}
    /\ obs.analysis.reasons[4] \in {"Trend bullish", "Trend bearish"}


\* C26: for a series of at least 30 prices, all positive, with
\* SMA(10) > SMA(30), get_trading_signal returns BUY whatever the RSI and
\* the current price are: the MA vote and the trend vote are both buy
\* votes.
C26_CrossoverForcesBuy ==
    (obs.op = "strategy" /\ obs.last = "signal"
       /\ Len(obs.prices) >= MIN_HISTORY_FOR_SIGNALS
       /\ \A i \in 1..Len(obs.prices) : obs.prices[i] > 0
       /\ 3 * SumSeq(LastN(obs.prices, 10)) > SumSeq(LastN(obs.prices, 30))) =>
      /\ obs.analysis.signal = "BUY"
      /\ CountOf(obs.analysis.reasons, "MA bullish") = 1
      /\ CountOf(obs.analysis.reasons, "Trend bullish") = 1

\* a rising series with an RSI of 100 and the current price at the
\* resistance: three sell votes against the two buy votes, and BUY
C26_Witness ==
    /\ obs.op = "strategy" /\ obs.last = "signal"
    /\ Len(obs.prices) >= MIN_HISTORY_FOR_SIGNALS
    /\ \A i \in 1..Len(obs.prices) : obs.prices[i] > 0
    /\ 3 * SumSeq(LastN(obs.prices, 10)) > SumSeq(LastN(obs.prices, 30))
    /\ obs.analysis.sell_signals = 3 /\ obs.analysis.buy_signals = 2
    /\ obs.analysis.signal = "BUY"

\* C27: for every price p, a series of at least 30 points all
\* equal to p, with p as the current price, yields no BUY and no SELL
\* candidate.
C27_FlatMarketNoSignal ==
    (obs.op = "strategy" /\ obs.last = "candidate"
       /\ Len(obs.prices) >= MIN_HISTORY_FOR_SIGNALS
       /\ \A i \in 1..Len(obs.prices) : obs.prices[i] = obs.current_price) =>
      obs.cand.signal = NoSignal


\* C24: when ticks overlap at or after the cutoff hour of one date, at most
\* one daily digest is sent for that date.
C24_OneDigestWhenOverlapping ==
    obs.op = "conc" =>
      Cardinality({i \in 1..Len(outbox) :
                     outbox[i].kind = "digest" /\ outbox[i].date = DateOf(now)}) <= 1

\* C30: a transfer-forecast request, whether it returns a forecast or none
\* and whatever the ticks running at the same time are doing, leaves
\* price_history.json and daily_notification.json exactly as they were.
C30_ForecastReadOnly ==
    [][(obs.op = "conc" /\ pc["web"] = "idle" /\ pc'["web"] = "done") =>
         /\ price_history_file' = price_history_file
         /\ daily_notification_file' = daily_notification_file
         /\ \A a \in Assets : StoredSeries(price_history_file', a)
                                = StoredSeries(price_history_file, a)]_vars

\* a forecast was made while a tick was between open(.., 'w') and
\* json.dump of its save, and the store is still as the tick left it
C30_Witness ==
    /\ obs.op = "conc" /\ pc["web"] = "done" /\ obs.forecast.made
    /\ \E t \in TickThreads : pc[t] = "dump"
    /\ price_history_file = TruncatedFile


\* C28: a forecast over a stored GBP history of 1 to 6 points estimates the
\* future rate at the current rate, so that the difference is exactly -150
\* (the manual tax) and the recommendation WAIT_FOR_AUTO, for every positive
\* amount and every available rate.
C28_ShortHistoryWaits ==
    (obs.op = "paypal" /\ obs.n > 0 /\ obs.amount > 0 /\ Truthy(obs.current_rate)
       /\ Len(obs.gbp_history) \in 1..6) =>
      /\ obs.forecast.made
      /\ obs.forecast.estimated_future_rate = 300 * obs.current_rate[1]
      /\ obs.forecast.difference = -150 * 100 * 300
      /\ obs.forecast.recommendation = "WAIT_FOR_AUTO"

\* 1000 GBP over six falling points: the trend is not used
C28_Witness ==
    /\ obs.op = "paypal" /\ obs.n > 0 /\ obs.amount = 1000
    /\ Len(obs.gbp_history) = 6
    /\ obs.gbp_history[6].price < obs.gbp_history[1].price
    /\ obs.forecast.made
    /\ obs.forecast.recommendation = "WAIT_FOR_AUTO"


\* C25: in a tick, for every asset with an available price whose series,
\* read back after the append, is long enough for the volatility gate and
\* get_trading_signal (30 points), the last element of that series is the
\* price of this tick.
C25_AppendVisibleToReread ==
    (obs.op = "tick" /\ obs.last = "tick") =>
      \A i \in 1..3 :
         (Truthy(obs.fetched[i])
            /\ Len(obs.series[i]) >= MIN_HISTORY_FOR_SIGNALS) =>
           obs.series[i][Len(obs.series[i])] = obs.fetched[i][1]

\* C29: a tick that appends for some asset leaves the stored series of
\* every asset it has no price for as it was, whatever the load of the
\* store returned.
C29_OtherSeriesUnchanged ==
    [][(obs'.op = "tick" /\ obs'.last = "tick" /\ obs'.n # obs.n
          /\ \E j \in 1..3 : Truthy(obs'.fetched[j])) =>
         \A i \in 1..3 :
            ~Truthy(obs'.fetched[i]) =>
               StoredSeries(price_history_file', AssetOrder[i])
                  = StoredSeries(price_history_file, AssetOrder[i])]_vars

=============================================================================
